---- MODULE Spec2Model ----
(***************************************************************************)
(* geobeau/stacktensor: BatchRingBuffer (src/src/lib.rs) over TensorBatch  *)
(* (src/src/tensor_batch.rs).  Every atomic load, store, fetch_add and     *)
(* compare_exchange_weak is one step of the calling thread, so the model   *)
(* has every interleaving of the threads at the granularity of the atomics.*)
(* Atomics are taken sequentially consistent.  A record's payload is the   *)
(* number of the call that appends it.                                     *)
(***************************************************************************)
EXTENDS Integers, Naturals, Sequences, FiniteSets, TLC

\* ---- bounds of the model ------------------------------------------------
\* producer threads of the concurrent ring specification
NumProducers == 2
\* calls (append or consume_buffer) started in one behaviour of Spec
MaxCalls == 3
\* largest number of batches drawn for the ring (powers of two only)
MaxBatches == 2
\* largest capacity of a batch
MaxCapacity == 2
\* threads calling TensorBatch::append once each in SpecBatch
NumThreads == 3
\* compare_exchange_weak failures on a matching value in one behaviour
MaxSpurious == 1

\* ---- state --------------------------------------------------------------
VARIABLES
  mask,            \* BatchRingBuffer.mask = batches_nr - 1
  capacity,        \* TensorBatch.capacity (the same for every batch)
  head,            \* BatchRingBuffer.head (stored wrapped)
  tail,            \* BatchRingBuffer.tail (stored wrapped)
  reserved_slots,  \* [batch -> TensorBatch.reserved_slots]
  written_slots,   \* [batch -> TensorBatch.written_slots]
  data,            \* [batch -> [slot -> payload]], 0 = the initial zero bytes
  state,           \* [batch -> TensorBatch.state]
  pc,              \* [thread -> position in the operation it runs]
  l_head,          \* [thread -> local `head` of append / consume_buffer]
  l_tail,          \* [thread -> local `tail` of append / consume_buffer]
  l_buf,           \* [thread -> index of the batch TensorBatch::append runs on]
  l_idx,           \* [thread -> local `idx` of TensorBatch::append]
  rec,             \* [thread -> number of the call the thread is running]
  script,          \* the calls of a scenario, in order
  budget,          \* number of calls a behaviour may start
  calls,           \* number of calls started
  ret,             \* [call -> what the call returned]
  lhead,           \* history: successful compare-and-swaps of head
  ltail,           \* history: successful compare-and-swaps of tail
  granted,         \* history: [batch -> slot indices granted since reserved_slots was last stored 0]
  completed,       \* history: [batch -> appends that finished (written_slots.fetch_add) since reset last returned]
  spurious,        \* history: compare_exchange_weak failures on a matching value
  seen,            \* history: the records the drain has read in a view
  acked,           \* history: the calls of append that returned Ok
  stored           \* history: the calls of consume_buffer whose reset() changed a counter

cfg    == <<mask, capacity, script, budget>>
ring   == <<head, tail>>
counts == <<reserved_slots, written_slots>>
store  == <<data, state>>
locals == <<l_head, l_tail, l_buf, l_idx>>
hist   == <<lhead, ltail, granted, completed, spurious, seen, acked, stored>>
vars   == <<mask, capacity, script, budget, head, tail, reserved_slots, written_slots,
            data, state, pc, l_head, l_tail, l_buf, l_idx, rec, calls, ret,
            lhead, ltail, granted, completed, spurious, seen, acked, stored>>

\* ---- threads ------------------------------------------------------------
\* producers are among the threads; the reclaimer is one more thread, which
\* is also the thread that runs a sequential scenario
Threads   == 1 .. NumThreads
Producers == 1 .. NumProducers
Consumer  == NumThreads + 1
Driver    == Consumer
Tids      == 1 .. (NumThreads + 1)

Batches == 0 .. mask
Slots   == 0 .. (capacity - 1)

\* ---- pure helpers -------------------------------------------------------
RECURSIVE BitAnd(_, _)
\* usize `&`
BitAnd(a, b) ==
  IF a = 0 \/ b = 0 THEN 0
  ELSE (a % 2) * (b % 2) + 2 * BitAnd(a \div 2, b \div 2)

is_power_of_two(n) == n # 0 /\ BitAnd(n, n - 1) = 0

\* a return value: r is the variant, v the payload of Ok
NoRet == [r |-> "-", v |-> 0]
Ret(r, v) == [r |-> r, v |-> v]

\* ---- construction -------------------------------------------------------
\* BatchRingBuffer::new(n, tensor_size, c): n batches from TensorBatch::new,
\* head = tail = 0, mask = n - 1.  s is the scenario, k the number of calls.
new(n, c, s, k) ==
  /\ is_power_of_two(n)
  /\ mask = n - 1
  /\ capacity = c
  /\ script = s
  /\ budget = k
  /\ head = 0
  /\ tail = 0
  /\ reserved_slots = [b \in 0 .. (n - 1) |-> 0]
  /\ written_slots = [b \in 0 .. (n - 1) |-> 0]
  /\ data = [b \in 0 .. (n - 1) |-> [i \in 0 .. (c - 1) |-> 0]]
  /\ state = [b \in 0 .. (n - 1) |-> "Writtable"]
  /\ pc = [t \in Tids |-> "idle"]
  /\ l_head = [t \in Tids |-> 0]
  /\ l_tail = [t \in Tids |-> 0]
  /\ l_buf = [t \in Tids |-> 0]
  /\ l_idx = [t \in Tids |-> 0]
  /\ rec = [t \in Tids |-> 0]
  /\ calls = 0
  /\ ret = [i \in 1 .. k |-> NoRet]
  /\ lhead = 0
  /\ ltail = 0
  /\ granted = [b \in 0 .. (n - 1) |-> << >>]
  /\ completed = [b \in 0 .. (n - 1) |-> 0]
  /\ spurious = 0
  /\ seen = {}
  /\ acked = {}
  /\ stored = {}

\* ---- TensorBatch --------------------------------------------------------
\* a fetch_add whose increment is lost
fetch_add_lost(v) == v

\* the value fetch_add(1) leaves in reserved_slots
fetch_add(v) == v + 1

\* the capacity test off by one
rejected_off_by_one(idx) == idx > capacity

\* idx >= self.capacity: the reservation is rejected
rejected(idx) == idx >= capacity

\* readiness read from the reservations instead of the completed writes
is_ready_by_reserved(b) == reserved_slots[b] >= capacity

\* TensorBatch::is_ready
is_ready(b) == written_slots[b] = capacity

\* the view handed out as soon as every slot is reserved
get_data_when_full(b) ==
  IF reserved_slots[b] >= capacity THEN Ret("Some", data[b]) ELSE Ret("None", 0)

\* TensorBatch::get_data (the build without the loom feature): the whole
\* data vector when written_slots == capacity, None otherwise
get_data(b) ==
  IF written_slots[b] = capacity THEN Ret("Some", data[b]) ELSE Ret("None", 0)

\* TensorBatch::is_full
is_full(b) == reserved_slots[b] >= capacity

\* the outcomes of compare_exchange_weak(expected, _) on a cell holding cur:
\* it fails when the values differ and may fail when they are equal
compare_exchange_weak(cur, expected) ==
  IF cur # expected THEN {FALSE}
  ELSE IF spurious < MaxSpurious THEN {TRUE, FALSE} ELSE {TRUE}

\* (head + 1) & self.mask, (tail + 1) & self.mask
wrap_next(i) == BitAnd(i + 1, mask)

\* the thread forgets its locals when its call returns
Return(t, r) ==
  /\ ret' = [ret EXCEPT ![rec[t]] = r]
  /\ pc' = [pc EXCEPT ![t] = "idle"]
  /\ rec' = [rec EXCEPT ![t] = 0]
  /\ l_head' = [l_head EXCEPT ![t] = 0]
  /\ l_tail' = [l_tail EXCEPT ![t] = 0]
  /\ l_buf' = [l_buf EXCEPT ![t] = 0]
  /\ l_idx' = [l_idx EXCEPT ![t] = 0]

Goto(t, p) == pc' = [pc EXCEPT ![t] = p]

\* TensorBatch::append, the reservation: fetch_add on reserved_slots and the
\* test of the index it returned
tb_reserve(t) ==
  /\ pc[t] = "tb_reserve"
  /\ LET b == l_buf[t]
         idx == reserved_slots[b]
     IN /\ reserved_slots' = [reserved_slots EXCEPT ![b] = fetch_add(idx)]
        /\ IF rejected(idx)
           THEN /\ Goto(t, "tb_none")
                /\ UNCHANGED <<l_idx, granted>>
           ELSE /\ Goto(t, "tb_copy")
                /\ l_idx' = [l_idx EXCEPT ![t] = idx]
                /\ granted' = [granted EXCEPT ![b] = Append(@, idx)]
  /\ UNCHANGED <<cfg, ring, written_slots, store, l_head, l_tail, l_buf, rec,
                 calls, ret, lhead, ltail, completed, spurious, seen, acked, stored>>

\* TensorBatch::append, copy_from_slice into the reserved slot and the fence
tb_copy(t) ==
  /\ pc[t] = "tb_copy"
  /\ data' = [data EXCEPT ![l_buf[t]][l_idx[t]] = rec[t]]
  /\ Goto(t, "tb_mark")
  /\ UNCHANGED <<cfg, ring, counts, state, locals, rec, calls, ret, hist>>

\* TensorBatch::append, fetch_add on written_slots, the state cell, Some(())
tb_mark(t) ==
  /\ pc[t] = "tb_mark"
  /\ LET b == l_buf[t]
         slot_written == written_slots[b]
     IN /\ written_slots' = [written_slots EXCEPT ![b] = slot_written + 1]
        /\ state' = [state EXCEPT
                       ![b] = IF slot_written + 1 = capacity THEN "Written" ELSE @]
        /\ completed' = [completed EXCEPT ![b] = @ + 1]
  /\ Goto(t, "tb_some")
  /\ UNCHANGED <<cfg, ring, reserved_slots, data, locals, rec, calls, ret,
                 lhead, ltail, granted, spurious, seen, acked, stored>>

\* TensorBatch::reset, the store to reserved_slots
reset_reserved(t) ==
  /\ pc[t] = "reset_reserved"
  /\ reserved_slots' = [reserved_slots EXCEPT ![l_tail[t]] = 0]
  /\ granted' = [granted EXCEPT ![l_tail[t]] = << >>]
  /\ stored' = IF reserved_slots[l_tail[t]] # 0 THEN stored \cup {rec[t]} ELSE stored
  /\ Goto(t, "reset_written")
  /\ UNCHANGED <<cfg, ring, written_slots, store, locals, rec, calls, ret,
                 lhead, ltail, completed, spurious, seen, acked>>

\* TensorBatch::reset, the store to written_slots; reset returns
reset_written(t) ==
  /\ pc[t] = "reset_written"
  /\ written_slots' = [written_slots EXCEPT ![l_tail[t]] = 0]
  /\ completed' = [completed EXCEPT ![l_tail[t]] = 0]
  /\ stored' = IF written_slots[l_tail[t]] # 0 THEN stored \cup {rec[t]} ELSE stored
  /\ Goto(t, "c_cas")
  /\ UNCHANGED <<cfg, ring, reserved_slots, store, locals, rec, calls, ret,
                 lhead, ltail, granted, spurious, seen, acked>>

\* ---- BatchRingBuffer::append --------------------------------------------
\* a thread enters append: the call is numbered and makes its first head.load
begin_append(t) ==
  /\ pc[t] = "idle"
  /\ calls < budget
  /\ calls' = calls + 1
  /\ rec' = [rec EXCEPT ![t] = calls + 1]
  /\ l_head' = [l_head EXCEPT ![t] = head]
  /\ l_buf' = [l_buf EXCEPT ![t] = BitAnd(head, mask)]
  /\ Goto(t, "tb_reserve")
  /\ UNCHANGED <<cfg, ring, counts, store, l_tail, l_idx, ret, hist>>

\* head.load and the choice of the batch, when the loop continues
append_load_head(t) ==
  /\ pc[t] = "a_head"
  /\ l_head' = [l_head EXCEPT ![t] = head]
  /\ l_buf' = [l_buf EXCEPT ![t] = BitAnd(head, mask)]
  /\ Goto(t, "tb_reserve")
  /\ UNCHANGED <<cfg, ring, counts, store, l_tail, l_idx, rec, calls, ret, hist>>

\* the slot index inside the batch returned in place of buffer_idx
append_ok_slot(t) ==
  /\ pc[t] = "tb_some"
  /\ Return(t, Ret("Ok", l_idx[t]))
  /\ acked' = acked \cup {rec[t]}
  /\ UNCHANGED <<cfg, ring, counts, store, calls,
                 lhead, ltail, granted, completed, spurious, seen, stored>>

\* Some(()) => return Ok(buffer_idx)
append_ok(t) ==
  /\ pc[t] = "tb_some"
  /\ Return(t, Ret("Ok", l_buf[t]))
  /\ acked' = acked \cup {rec[t]}
  /\ UNCHANGED <<cfg, ring, counts, store, calls,
                 lhead, ltail, granted, completed, spurious, seen, stored>>

\* the ring-full test made against head instead of new_head
all_buffers_full_at_head(tl, hd) == tl = hd

\* new_head = (head + 1) & mask; tail == new_head
all_buffers_full(tl, hd) == tl = wrap_next(hd)

\* None => tail.load, new_head, and the test tail == new_head
append_none(t) ==
  /\ pc[t] = "tb_none"
  /\ IF all_buffers_full(tail, l_head[t])
     THEN Return(t, Ret("AllBuffersFull", 0))
     ELSE /\ l_tail' = [l_tail EXCEPT ![t] = tail]
          /\ Goto(t, "a_cas")
          /\ UNCHANGED <<l_head, l_buf, l_idx, rec, ret>>
  /\ UNCHANGED <<cfg, ring, counts, store, calls, hist>>

\* a failed compare-exchange retried against the head loaded before
append_cas_stuck(t) ==
  /\ pc[t] = "a_cas"
  /\ \E ok \in compare_exchange_weak(head, l_head[t]) :
       /\ head' = IF ok THEN wrap_next(l_head[t]) ELSE head
       /\ lhead' = IF ok THEN lhead + 1 ELSE lhead
       /\ spurious' = IF ~ok /\ head = l_head[t] THEN spurious + 1 ELSE spurious
       /\ Goto(t, IF ok THEN "a_head" ELSE "a_cas")
  /\ UNCHANGED <<cfg, tail, counts, store, locals, rec, calls, ret,
                 ltail, granted, completed, seen, acked, stored>>

\* head.compare_exchange_weak(head, new_head); either way the loop continues
append_cas(t) ==
  /\ pc[t] = "a_cas"
  /\ \E ok \in compare_exchange_weak(head, l_head[t]) :
       /\ head' = IF ok THEN wrap_next(l_head[t]) ELSE head
       /\ lhead' = IF ok THEN lhead + 1 ELSE lhead
       /\ spurious' = IF ~ok /\ head = l_head[t] THEN spurious + 1 ELSE spurious
  /\ Goto(t, "a_head")
  /\ UNCHANGED <<cfg, tail, counts, store, locals, rec, calls, ret,
                 ltail, granted, completed, seen, acked, stored>>

\* ---- BatchRingBuffer::consume_buffer ------------------------------------
\* a thread enters consume_buffer: the call is numbered and does tail.load
begin_consume(t) ==
  /\ pc[t] = "idle"
  /\ calls < budget
  /\ calls' = calls + 1
  /\ rec' = [rec EXCEPT ![t] = calls + 1]
  /\ l_tail' = [l_tail EXCEPT ![t] = tail]
  /\ Goto(t, "c_head")
  /\ UNCHANGED <<cfg, ring, counts, store, l_head, l_buf, l_idx, ret, hist>>

\* the empty test made against the batch after head
no_buffer_ready_after_head(tl, hd) == tl = wrap_next(hd)

\* tail == head
no_buffer_ready(tl, hd) == tl = hd

\* head.load and the test tail == head
consume_load_head(t) ==
  /\ pc[t] = "c_head"
  /\ IF no_buffer_ready(l_tail[t], head)
     THEN Return(t, Ret("NoBufferReady", 0))
     ELSE /\ l_head' = [l_head EXCEPT ![t] = head]
          /\ Goto(t, "reset_reserved")
          /\ UNCHANGED <<l_tail, l_buf, l_idx, rec, ret>>
  /\ UNCHANGED <<cfg, ring, counts, store, calls, hist>>

\* tail.compare_exchange_weak(tail, new_tail) and the return
consume_cas(t) ==
  /\ pc[t] = "c_cas"
  /\ \E ok \in compare_exchange_weak(tail, l_tail[t]) :
       /\ tail' = IF ok THEN wrap_next(l_tail[t]) ELSE tail
       /\ ltail' = IF ok THEN ltail + 1 ELSE ltail
       /\ spurious' = IF ~ok /\ tail = l_tail[t] THEN spurious + 1 ELSE spurious
       /\ Return(t, Ret(IF ok THEN "Ok" ELSE "NoBufferReady", 0))
  /\ UNCHANGED <<cfg, head, counts, store, calls, lhead, granted, completed, seen, acked, stored>>

\* ---- the threads of the ring: producers and one consumer ----------------
producer_call(p) == begin_append(p)

consumer_call == begin_consume(Consumer)

NextRing ==
  \/ \E p \in Producers : producer_call(p)
  \/ \E p \in Producers : append_load_head(p)
  \/ \E p \in Producers : tb_reserve(p)
  \/ \E p \in Producers : tb_copy(p)
  \/ \E p \in Producers : tb_mark(p)
  \/ \E p \in Producers : append_ok(p)
  \/ \E p \in Producers : append_none(p)
  \/ \E p \in Producers : append_cas(p)
  \/ consumer_call
  \/ consume_load_head(Consumer)
  \/ reset_reserved(Consumer)
  \/ reset_written(Consumer)
  \/ consume_cas(Consumer)

InitRing(k) ==
  \E n \in 1 .. MaxBatches, c \in 1 .. MaxCapacity :
    new(n, c, << >>, k)

Init == InitRing(MaxCalls)

Next == NextRing

Spec == Init /\ [][Next]_vars

\* every step a thread takes inside a call it has entered
thread_step(t) ==
  \/ append_load_head(t) \/ tb_reserve(t) \/ tb_copy(t) \/ tb_mark(t)
  \/ append_ok(t) \/ append_none(t) \/ append_cas(t)
  \/ consume_load_head(t) \/ reset_reserved(t) \/ reset_written(t)
  \/ consume_cas(t)

\* fair scheduling: a thread inside a call is not suspended for ever (a
\* compare_exchange_weak fails spuriously at most MaxSpurious times)
SpecFair ==
  Spec /\ \A t \in Producers \cup {Consumer} : WF_vars(thread_step(t))

\* the same threads with two more calls, for the interleavings that need them
InitDeep == InitRing(MaxCalls + 2)

SpecDeep == InitDeep /\ [][NextRing]_vars

\* ---- a sequential scenario: one thread runs the calls of `script` --------
driver_append ==
  /\ calls < Len(script)
  /\ script[calls + 1] = "append"
  /\ begin_append(Driver)

driver_consume ==
  /\ calls < Len(script)
  /\ script[calls + 1] = "consume"
  /\ begin_consume(Driver)

NextSeq ==
  \/ driver_append
  \/ driver_consume
  \/ append_load_head(Driver)
  \/ tb_reserve(Driver)
  \/ tb_copy(Driver)
  \/ tb_mark(Driver)
  \/ append_ok(Driver)
  \/ append_none(Driver)
  \/ append_cas(Driver)
  \/ consume_load_head(Driver)
  \/ reset_reserved(Driver)
  \/ reset_written(Driver)
  \/ consume_cas(Driver)

\* tests::it_works of lib.rs: batches_nr = 4, capacity = 1 and
\* capacity * batches_nr * 4 iterations of append then consume_buffer
RoundTripBatches == 4
RoundTripCapacity == 1
RoundTripPairs == RoundTripCapacity * RoundTripBatches * 4
RoundTripScript ==
  [i \in 1 .. (2 * RoundTripPairs) |-> IF i % 2 = 1 THEN "append" ELSE "consume"]

InitRoundTrip ==
  new(RoundTripBatches, RoundTripCapacity, RoundTripScript, 2 * RoundTripPairs)

SpecRoundTrip == InitRoundTrip /\ [][NextSeq]_vars

\* the backpressure scenario on n batches of capacity c: n * c appends, one
\* more append, one consume_buffer, one append
BackpressureScript(n, c) ==
  [i \in 1 .. (n * c + 3) |-> IF i = n * c + 2 THEN "consume" ELSE "append"]

InitBackpressure ==
  \E n \in 1 .. MaxBatches, c \in 1 .. MaxCapacity :
    new(n, c, BackpressureScript(n, c), n * c + 3)

SpecBackpressure == InitBackpressure /\ [][NextSeq]_vars

\* ---- two reclaimers: a second thread calls consume_buffer as well --------
Reclaimers == {NumThreads, Consumer}

NextReclaimers ==
  \/ \E p \in Producers : producer_call(p)
  \/ \E p \in Producers : append_load_head(p)
  \/ \E p \in Producers : tb_reserve(p)
  \/ \E p \in Producers : tb_copy(p)
  \/ \E p \in Producers : tb_mark(p)
  \/ \E p \in Producers : append_ok(p)
  \/ \E p \in Producers : append_none(p)
  \/ \E p \in Producers : append_cas(p)
  \/ \E c \in Reclaimers : begin_consume(c)
  \/ \E c \in Reclaimers : consume_load_head(c)
  \/ \E c \in Reclaimers : reset_reserved(c)
  \/ \E c \in Reclaimers : reset_written(c)
  \/ \E c \in Reclaimers : consume_cas(c)

InitReclaimers == InitRing(MaxCalls + 1)

SpecReclaimers == InitReclaimers /\ [][NextReclaimers]_vars

\* ---- the drain: the one consumer, which reads the batch at tail with ----
\* get_data and calls consume_buffer only after get_data returned the view
\* tail.load and get_data() on the batch at tail, which returns the view
drain_get_data(t) ==
  /\ pc[t] = "idle"
  /\ get_data(tail).r = "Some"
  /\ l_tail' = [l_tail EXCEPT ![t] = tail]
  /\ Goto(t, "d_view")
  /\ UNCHANGED <<cfg, ring, counts, store, l_head, l_buf, l_idx, rec, calls, ret, hist>>

\* the drain reads the records out of the view
drain_read_view(t) ==
  /\ pc[t] = "d_view"
  /\ seen' = seen \cup {data[l_tail[t]][i] : i \in Slots}
  /\ Goto(t, "d_read")
  /\ UNCHANGED <<cfg, ring, counts, store, locals, rec, calls, ret,
                 lhead, ltail, granted, completed, spurious, acked, stored>>

\* the drain enters consume_buffer: the call is numbered and does tail.load
drain_consume(t) ==
  /\ pc[t] = "d_read"
  /\ calls < budget
  /\ calls' = calls + 1
  /\ rec' = [rec EXCEPT ![t] = calls + 1]
  /\ l_tail' = [l_tail EXCEPT ![t] = tail]
  /\ Goto(t, "c_head")
  /\ UNCHANGED <<cfg, ring, counts, store, l_head, l_buf, l_idx, ret, hist>>

NextDrain ==
  \/ \E p \in Producers : producer_call(p)
  \/ \E p \in Producers : append_load_head(p)
  \/ \E p \in Producers : tb_reserve(p)
  \/ \E p \in Producers : tb_copy(p)
  \/ \E p \in Producers : tb_mark(p)
  \/ \E p \in Producers : append_ok(p)
  \/ \E p \in Producers : append_none(p)
  \/ \E p \in Producers : append_cas(p)
  \/ drain_get_data(Consumer)
  \/ drain_read_view(Consumer)
  \/ drain_consume(Consumer)
  \/ consume_load_head(Consumer)
  \/ reset_reserved(Consumer)
  \/ reset_written(Consumer)
  \/ consume_cas(Consumer)

InitDrain == InitRing(MaxCalls + 1)

SpecDrain == InitDrain /\ [][NextDrain]_vars

\* ---- tests::loom_concurrent_append_two_threads: k threads, each calling --
\* TensorBatch::append once on one empty batch
thread_call(t) ==
  /\ pc[t] = "idle"
  /\ calls < budget
  /\ calls' = calls + 1
  /\ rec' = [rec EXCEPT ![t] = calls + 1]
  /\ Goto(t, "tb_reserve")
  /\ UNCHANGED <<cfg, ring, counts, store, locals, ret, hist>>

\* the thread's closure returns what TensorBatch::append returned
thread_return(t) ==
  /\ pc[t] \in {"tb_some", "tb_none"}
  /\ ret' = [ret EXCEPT ![rec[t]] = Ret(IF pc[t] = "tb_some" THEN "Some" ELSE "None", 0)]
  /\ Goto(t, "joined")
  /\ UNCHANGED <<cfg, ring, counts, store, locals, rec, calls, hist>>

InitBatch ==
  \E c \in 1 .. MaxCapacity, k \in 1 .. NumThreads :
    new(1, c, [i \in 1 .. k |-> "append"], k)

NextBatch ==
  \/ \E t \in Threads : thread_call(t)
  \/ \E t \in Threads : tb_reserve(t)
  \/ \E t \in Threads : tb_copy(t)
  \/ \E t \in Threads : tb_mark(t)
  \/ \E t \in Threads : thread_return(t)

SpecBatch == InitBatch /\ [][NextBatch]_vars

\* ---- properties ---------------------------------------------------------
TypeOK ==
  /\ head \in Batches
  /\ tail \in Batches
  /\ \A t \in Tids : pc[t] \in {"idle", "a_head", "tb_reserve", "tb_copy", "tb_mark",
                               "tb_some", "tb_none", "a_cas", "c_head",
                               "reset_reserved", "reset_written", "c_cas", "joined",
                               "d_view", "d_read"}

\* C1: slot exclusivity.  Among the appends that reserve in one batch between
\* two stores of 0 to its reserved_slots, every granted slot index is below
\* capacity and is granted to one append only.
SlotExclusivity ==
  \A b \in Batches :
    \A i, j \in 1 .. Len(granted[b]) :
      /\ granted[b][i] < capacity
      /\ (i # j => granted[b][i] # granted[b][j])

\* two producers hold different slots of one batch generation at once
SlotExclusivityWitness ==
  \E p, q \in Producers :
    /\ p # q
    /\ pc[p] = "tb_copy" /\ pc[q] = "tb_copy"
    /\ l_buf[p] = l_buf[q]
    /\ l_idx[p] # l_idx[q]
    /\ Len(granted[l_buf[p]]) = 2

ResetSafety ==
  \A c \in Tids :
    pc[c] \in {"reset_reserved", "reset_written"} =>
      /\ \A p \in Producers :
           ~(l_buf[p] = l_tail[c] /\ pc[p] \in {"tb_reserve", "tb_copy", "tb_mark"})
      /\ BitAnd(head, mask) # l_tail[c]

\* C4: ring occupancy.  Successful head advances minus successful tail
\* advances never exceeds the number of batches.
OccupancyBound == lhead - ltail <= mask + 1

\* C5: append returns AllBuffersFull only when, at its read of tail, the
\* batch at head has no unreserved slot and every batch is occupied.
AllBuffersFullOnlyWhenFull ==
  [][\A p \in Producers :
       (pc[p] = "tb_none" /\ pc'[p] = "idle") =>
         /\ is_full(BitAnd(head, mask))
         /\ lhead - ltail >= mask]_vars

\* C6: count ordering.  In every state each batch has
\* 0 <= written_slots <= reserved_slots.
CountOrdering ==
  \A b \in Batches :
    0 <= written_slots[b] /\ written_slots[b] <= reserved_slots[b]

\* C7: when consume_buffer succeeds on a batch, both counters of the batch
\* are 0, and the batch rejects a reservation only after granting `capacity`
\* slots since the reset.
ConsumeLeavesBatchEmpty ==
  [][/\ \A c \in Tids :
          (pc[c] = "c_cas" /\ ltail' = ltail + 1) =>
            /\ reserved_slots'[l_tail[c]] = 0
            /\ written_slots'[l_tail[c]] = 0
     /\ \A p \in Tids :
          (pc[p] = "tb_reserve" /\ pc'[p] = "tb_none") =>
            Len(granted[l_buf[p]]) = capacity]_vars

\* C8: contention on one batch.  When the k threads have all returned,
\* min(k, c) of them returned Some and the others None, written_slots is
\* min(k, c), and the batch is ready exactly when k >= c.
Min(a, b) == IF a < b THEN a ELSE b
Returned(r) == {i \in DOMAIN ret : ret[i].r = r}
ContentionOutcome ==
  (\A i \in DOMAIN ret : ret[i] # NoRet) =>
    /\ Cardinality(Returned("Some")) = Min(Len(script), capacity)
    /\ Cardinality(Returned("None")) = Len(script) - Min(Len(script), capacity)
    /\ written_slots[0] = Min(Len(script), capacity)
    /\ (is_ready(0) <=> Len(script) >= capacity)

\* the case of the test: three threads, capacity two, all returned
ContentionOutcomeWitness ==
  /\ Len(script) = 3
  /\ capacity = 2
  /\ \A i \in DOMAIN ret : ret[i] # NoRet
  /\ Cardinality(Returned("None")) = 1

BackpressureScenario ==
  LET full == (mask + 1) * capacity
  IN /\ \A i \in 1 .. full : ret[i] # NoRet => ret[i].r = "Ok"
     /\ (ret[full + 1] # NoRet => ret[full + 1].r = "AllBuffersFull")
     /\ (ret[full + 3] # NoRet /\ ret[full + 2].r = "Ok" => ret[full + 3].r = "Ok")

\* two batches of capacity two: the seven calls have returned
BackpressureWitness ==
  /\ mask = 1
  /\ capacity = 2
  /\ ret[5].r = "AllBuffersFull"
  /\ ret[6].r = "Ok"
  /\ ret[7].r = "Ok"

\* thread t holds, or held until it returned Some, a slot of the batch
Granted(t) ==
  \/ pc[t] \in {"tb_copy", "tb_mark", "tb_some"}
  \/ pc[t] = "joined" /\ ret[rec[t]].r = "Some"

\* C11: get_data on one batch.  It returns the view exactly when the batch
\* is ready, and then every slot holds the record of the append that was
\* granted that slot; appends that reserve in the order they are called
\* leave the records in call order.
GetDataView ==
  LET view == get_data(0)
  IN /\ (view.r = "Some") <=> is_ready(0)
     /\ view.r = "Some" =>
          /\ \A i \in Slots :
               \E t \in Threads : Granted(t) /\ l_idx[t] = i /\ view.v[i] = rec[t]
          /\ (\A t \in Threads : Granted(t) => l_idx[t] = rec[t] - 1) =>
               view.v = [i \in Slots |-> i + 1]

\* two appends in call order on a batch of capacity two: the view is <<1, 2>>
GetDataViewWitness ==
  /\ capacity = 2
  /\ get_data(0).r = "Some"
  /\ get_data(0).v = [i \in Slots |-> i + 1]
  /\ \A t \in Threads : pc[t] \in {"idle", "joined"}

\* C12: under fair scheduling every call that was entered returns: an
\* append with Ok or AllBuffersFull, a consume_buffer with Ok or
\* NoBufferReady.
CallsReturn ==
  \A c \in 1 .. MaxCalls : (calls >= c) ~> (ret[c] # NoRet)

\* both producers are back at the top of the append loop after their
\* compare-exchange, and only one of the two exchanges succeeded
CallsReturnWitness ==
  /\ \A p \in 1 .. 2 : pc[p] = "a_head"
  /\ l_head[1] = l_head[2]
  /\ lhead = 1
  /\ spurious = 0

\* C13 as stated: with one reclaimer tail never passes head, and a successful
\* consume_buffer never moves tail onto or beyond the batch at head.
TailNeverReachesHead ==
  [][ltail' = ltail + 1 => (tail' # head' /\ ltail' < lhead')]_vars

\* C13 amended: with one reclaimer the successful tail advances never
\* outnumber the successful head advances; a successful consume_buffer may
\* move tail onto the batch at head (tail == head, nothing left to reclaim)
\* and never beyond it.
TailBehindHead == ltail <= lhead

\* the consumer has reclaimed every batch the producers left behind
TailBehindHeadWitness ==
  /\ ltail >= 1
  /\ ltail = lhead
  /\ tail = head
  /\ pc[Consumer] = "idle"

\* C14: a ready batch stays ready until reset() is executed on it; no step
\* of an append takes readiness away.  A batch stops being ready only while
\* a thread is inside reset() on it.
ReadyStable ==
  [][\A b \in Batches :
       (is_ready(b) /\ ~is_ready(b)') =>
         \E c \in Tids : pc[c] = "reset_written" /\ l_tail[c] = b]_vars

HeadAdvance ==
  [][lhead' = lhead + 1 =>
       /\ head' = wrap_next(head)
       /\ is_full(head)]_vars

\* C17: consume_buffer reclaims only completed batches: the batch it is
\* about to reset has written_slots == capacity.
ResetOnlyReady ==
  \A c \in Tids : pc[c] = "reset_reserved" => is_ready(l_tail[c])

\* the acknowledged records of batch b that the drain has not read yet
Pending(b) == {c \in acked \ seen : ret[c].v = b}

\* C18: with a drain that reads the view of the batch at tail before every
\* consume_buffer, no record whose append returned Ok is lost before the
\* drain has read it: it is still stored in the batch its append returned,
\* in a slot that cannot be granted again (not overwritten), and it is
\* still counted in written_slots of that batch (not erased by a reset), so
\* that get_data can hand it out.
NoAckedRecordLost ==
  \A b \in Batches :
    /\ \A c \in Pending(b) :
         \E i \in Slots : data[b][i] = c /\ i < reserved_slots[b]
    /\ Cardinality(Pending(b)) <= written_slots[b]

\* C19: a consume_buffer call that returns NoBufferReady, because tail
\* equals head or because its compare-exchange of tail failed against
\* another reclaimer, has had no effect: it changed no counter of any batch.
\* (A compare_exchange_weak that fails on a matching value is left aside.)
NoBufferReadyHasNoEffect ==
  spurious = 0 => \A c \in stored : ret[c].r # "NoBufferReady"

\* C20: backpressure is recoverable for every valid construction, one batch
\* included: once the ring is quiescent and an append has returned
\* AllBuffersFull, the next consume_buffer returns Ok and the append after
\* it returns Ok.  (A compare_exchange_weak that fails on a matching value
\* is left aside.)
BackpressureRecoverable ==
  LET full == (mask + 1) * capacity
  IN (spurious = 0 /\ ret[full + 1].r = "AllBuffersFull") =>
       /\ (ret[full + 2] # NoRet => ret[full + 2].r = "Ok")
       /\ (ret[full + 3] # NoRet => ret[full + 3].r = "Ok")

====
